---- MODULE Spec2Model ----
(***************************************************************************)
(* TSQA bill extractor: the "Generate Bill" handler of app.py and the      *)
(* three functions of processor.py it calls (extract_data_from_image,      *)
(* format_bill_output, create_summary_dataframe).                          *)
(*                                                                         *)
(* Numbers.  A Python float is modelled as an exact decimal fixed-point    *)
(* number: an integer count of 1/Scale units (25.50 is 255000).  Binary    *)
(* rounding error of IEEE doubles is outside the model.                    *)
(* Strings that are parsed (quantity, price) are sequences of one-char     *)
(* strings, so that int() and float() are computed from the characters.    *)
(***************************************************************************)
EXTENDS Integers, Sequences, FiniteSets, TLC

\* ------------------------------------------------------------------ bounds
\* largest number of uploaded screenshots in one run
MaxFiles == 2
\* largest number of line items the inference replies of one run hold in all
MaxBatch == 3

\* fixed-point resolution of a float: units per 1.0
Scale == 100 * 100

\* ------------------------------------------------------- JSON values
\* A value of a decoded JSON object (or the absence of the key).
\*   t = "absent": the key is not in the dict
\*   t = "null"  : None
\*   t = "int"   : Python int n
\*   t = "real"  : Python float, n units of 1/Scale
\*   t = "str"   : Python str with characters s
Absent == [t |-> "absent", n |-> 0, s |-> <<>>]
Null == [t |-> "null", n |-> 0, s |-> <<>>]
JInt(n) == [t |-> "int", n |-> n, s |-> <<>>]
JReal(u) == [t |-> "real", n |-> u, s |-> <<>>]
JStr(s) == [t |-> "str", n |-> 0, s |-> s]

\* dict.get(key, default): the default is used only when the key is missing
Get(item, key, default) == IF item[key].t = "absent" THEN default ELSE item[key]

\* ------------------------------------------------ int() and float()
Digits == <<"0", "1", "2", "3", "4", "5", "6", "7", "8", "9">>
DigitSet == {Digits[k] : k \in 1..10}
DigitVal(c) == (CHOOSE k \in 1..10 : Digits[k] = c) - 1
AllDigits(s) == \A k \in 1..Len(s) : s[k] \in DigitSet

RECURSIVE DigitsToNat(_)
DigitsToNat(s) ==
  IF s = <<>> THEN 0
  ELSE DigitsToNat(SubSeq(s, 1, Len(s) - 1)) * 10 + DigitVal(s[Len(s)])

HasSign(s) == s # <<>> /\ s[1] \in {"-", "+"}
Unsigned(s) == IF HasSign(s) THEN Tail(s) ELSE s
SignOf(s) == IF s # <<>> /\ s[1] = "-" THEN -1 ELSE 1

\* result of a call that may raise: exc = "none" and the value v, or the
\* name of the exception raised
Ok(v) == [exc |-> "none", v |-> v]
Raise(e) == [exc |-> e, v |-> 0]

\* truncation toward zero of a fixed-point number
Trunc(u) == IF u >= 0 THEN u \div Scale ELSE -((-u) \div Scale)

\* int(x)
PyInt(x) ==
  CASE x.t = "int" -> Ok(x.n)
    [] x.t = "real" -> Ok(Trunc(x.n))
    [] x.t = "str" ->
         LET body == Unsigned(x.s)
         IN IF body # <<>> /\ AllDigits(body)
            THEN Ok(SignOf(x.s) * DigitsToNat(body))
            ELSE Raise("ValueError")
    [] OTHER -> Raise("TypeError")

\* positions of "." in a string
Dots(s) == {k \in 1..Len(s) : s[k] = "."}
\* the fraction digits d1 d2 ... as units of 1/Scale (four places)
FracUnits(f) ==
  LET pad == SubSeq(f \o <<"0", "0", "0", "0">>, 1, 4)
  IN DigitsToNat(pad)

\* float(x)
PyFloat(x) ==
  CASE x.t = "int" -> Ok(x.n * Scale)
    [] x.t = "real" -> Ok(x.n)
    [] x.t = "str" ->
         LET body == Unsigned(x.s)
             dots == Dots(body)
         IN IF dots = {}
            THEN IF body # <<>> /\ AllDigits(body)
                 THEN Ok(SignOf(x.s) * DigitsToNat(body) * Scale)
                 ELSE Raise("ValueError")
            ELSE LET d == CHOOSE k \in dots : TRUE
                     ip == SubSeq(body, 1, d - 1)
                     fp == SubSeq(body, d + 1, Len(body))
                 IN IF Cardinality(dots) = 1 /\ AllDigits(ip) /\ AllDigits(fp)
                       /\ (ip # <<>> \/ fp # <<>>)
                    THEN Ok(SignOf(x.s) * (DigitsToNat(ip) * Scale + FracUnits(fp)))
                    ELSE Raise("ValueError")
    [] OTHER -> Raise("TypeError")

\* round to nearest instead of ceiling
math_ceil_nearest(u) == (u + (Scale \div 2)) \div Scale

\* math.ceil(x) of a fixed-point number, as an integer
math_ceil(u) == -((-u) \div Scale)

\* ------------------------------------------------------- line items
Item(title, quantity, price) ==
  [title |-> title, quantity |-> quantity, price |-> price]

TitleCase == JStr(<<"C", "a", "s", "e">>)
TitleShoes == JStr(<<"S", "h", "o", "e", "s">>)

\* the decoded objects an inference reply may hold
Items ==
  { Item(TitleCase, Absent, JReal(1500001)),
    Item(TitleShoes, JInt(2), JReal(255000)),
    Item(TitleCase, JInt(0), JReal(255000)),
    Item(TitleShoes, JStr(<<"3">>), JStr(<<"1", "9", ".", "9", "9">>)),
    Item(TitleCase, JStr(<<"a", "b", "c">>), JReal(255000)),
    Item(TitleCase, Null, JReal(255000)),
    Item(TitleShoes, JInt(1), JStr(<<"a", "b", "c">>)),
    Item(TitleCase, JInt(1), JReal(-50000)),
    Item(Absent, JReal(25000), Absent),
    Item(TitleShoes, JInt(1), Null),
    Item(TitleCase, JStr(<<"a", "b", "c">>), Null),
    Item(TitleShoes, JInt(1), JReal(100)) }

SeqsUpTo(S, n) == UNION {[1..k -> S] : k \in 0..n}

\* --------------------------------------------------- inference reply
\* The reply text is a sequence of tokens: a markdown fence, prose, or the
\* text of a JSON array (carrying the list it decodes to).
Tok(k, data) == [k |-> k, data |-> data]
FenceJson == Tok("fence_json", <<>>)
Fence == Tok("fence", <<>>)
Prose == Tok("prose", <<>>)
JsonArray(data) == Tok("array", data)

\* response_text.replace(FENCE_JSON, "").replace(FENCE, "").strip(), where
\* FENCE is the three-backquote markdown fence and FENCE_JSON the fence
\* followed by json
CleanFences(text) == SelectSeq(text, LAMBDA tk : tk.k \notin {"fence_json", "fence"})

\* json.loads(cleaned_text)
json_loads(text) ==
  IF Len(text) = 1 /\ text[1].k = "array"
  THEN [exc |-> "none", data |-> text[1].data]
  ELSE [exc |-> "JSONDecodeError", data |-> <<>>]

\* An uploaded image, as the environment answers for it: whether
\* Image.open succeeds, whether the inference call returns, and its reply.
Image(open_ok, infer_ok, text) ==
  [open_ok |-> open_ok, infer_ok |-> infer_ok, text |-> text]

\* The replies of the inference service: a bare JSON array of up to room
\* objects, an array of at most one object wrapped in markdown fences, an
\* empty reply, and an array preceded by prose.
Replies(room) ==
  {<<JsonArray(d)>> : d \in SeqsUpTo(Items, room)}
  \cup {<<FenceJson, JsonArray(d), Fence>> :
          d \in SeqsUpTo(Items, IF room > 1 THEN 1 ELSE room)}
  \cup {<<>>, <<Prose, JsonArray(<<>>)>>}

Images(room) ==
  {Image(FALSE, FALSE, <<>>), Image(TRUE, FALSE, <<>>)}
  \cup {Image(TRUE, TRUE, r) : r \in Replies(room)}

\* extract_data_from_image that lets the inference or decoding error out
extract_data_from_image_reraise(img) ==
  IF ~img.open_ok THEN [exc |-> "UnidentifiedImageError", data |-> <<>>, error |-> FALSE]
  ELSE IF ~img.infer_ok THEN [exc |-> "InferenceError", data |-> <<>>, error |-> TRUE]
  ELSE LET decoded == json_loads(CleanFences(img.text))
       IN IF decoded.exc # "none"
          THEN [exc |-> decoded.exc, data |-> <<>>, error |-> TRUE]
          ELSE [exc |-> "none", data |-> decoded.data, error |-> FALSE]

\* extract_data_from_image(image_file): exc is the error that propagates to
\* the caller, data the returned list, error whether "ERROR extracting
\* data" was printed.
ExtractResult(e, data, error) == [exc |-> e, data |-> data, error |-> error]

extract_data_from_image(img) ==
  IF ~img.open_ok THEN ExtractResult("UnidentifiedImageError", <<>>, FALSE)
  ELSE IF ~img.infer_ok THEN ExtractResult("none", <<>>, TRUE)
  ELSE LET decoded == json_loads(CleanFences(img.text))
       IN IF decoded.exc # "none" THEN ExtractResult("none", <<>>, TRUE)
          ELSE ExtractResult("none", decoded.data, FALSE)

\* ------------------------------------------------------------ state
VARIABLES
  pc,           \* position of the handler
  n_files,      \* len(uploaded_files)
  idx,          \* images processed so far by the for loop of app.py
  all_items,    \* the aggregated batch
  errors,       \* number of "ERROR extracting data" lines printed
  exc,          \* the uncaught error that ended the run, or "none"
  i,            \* items consumed by the for loop of format_bill_output
  subtotal,     \* local subtotal of format_bill_output
  blocks,       \* item blocks appended to bill_text so far
  line_totals,  \* the terms added to subtotal so far
  bill,         \* (bill_text, subtotal) as returned to the handler
  df_summary    \* the summary table as returned to the handler

vars == <<pc, n_files, idx, all_items, errors, exc, i, subtotal, blocks,
          line_totals, bill, df_summary>>

NoBill == [returned |-> FALSE, blocks |-> <<>>, rounded_total |-> 0, subtotal |-> 0]
NoTable == [returned |-> FALSE, rows |-> <<>>]

Init ==
  /\ pc = "extract"
  /\ n_files \in 1..MaxFiles
  /\ idx = 0
  /\ all_items = <<>>
  /\ errors = 0
  /\ exc = "none"
  /\ i = 0
  /\ subtotal = 0
  /\ blocks = <<>>
  /\ line_totals = <<>>
  /\ bill = NoBill
  /\ df_summary = NoTable


\* ------------------------------------------------ format_bill_output
\* except ValueError: the exceptions the handler of the loop body catches
Caught(e) == e = "ValueError"

\* f"{price:.2f}": the price rounded to hundredths (a count of 0.01)
Format2f(u) == IF u >= 0 THEN (u + 50) \div 100 ELSE -((50 - u) \div 100)

\* a loop body that zeroes an unparsable price instead of skipping the item
ItemOutcome_zeroed(item) ==
  LET q == PyInt(Get(item, "quantity", JInt(1)))
      p == PyFloat(Get(item, "price", JReal(0)))
      pv == IF p.exc = "ValueError" THEN 0 ELSE p.v
      none == [exc |-> "none", qty |-> 0, price |-> 0, line_total |-> 0,
               title |-> Absent, qty_shown |-> 0, price_shown |-> 0]
  IN IF q.exc # "none" THEN [none EXCEPT !.exc = q.exc]
     ELSE IF p.exc \notin {"none", "ValueError"} THEN [none EXCEPT !.exc = p.exc]
     ELSE [exc |-> "none", qty |-> q.v, price |-> pv,
           line_total |-> pv * q.v,
           title |-> Get(item, "title", JStr(<<"I", "t", "e", "m">>)),
           qty_shown |-> IF q.v > 1 THEN q.v ELSE 1,
           price_shown |-> Format2f(pv)]

\* The try block of the loop body for one item: the exception it raises, or
\* the quantity, the price, the term added to subtotal and the item block.
ItemOutcome(item) ==
  LET q == PyInt(Get(item, "quantity", JInt(1)))
      p == PyFloat(Get(item, "price", JReal(0)))
      none == [exc |-> "none", qty |-> 0, price |-> 0, line_total |-> 0,
               title |-> Absent, qty_shown |-> 0, price_shown |-> 0]
  IN IF q.exc # "none" THEN [none EXCEPT !.exc = q.exc]
     ELSE IF p.exc # "none" THEN [none EXCEPT !.exc = p.exc]
     ELSE [exc |-> "none", qty |-> q.v, price |-> p.v,
           line_total |-> p.v * q.v,
           title |-> Get(item, "title", JStr(<<"I", "t", "e", "m">>)),
           qty_shown |-> IF q.v > 1 THEN q.v ELSE 1,
           price_shown |-> Format2f(p.v)]

\* the item block appended to bill_text
Block(o) == [title |-> o.title, qty_shown |-> o.qty_shown, price_shown |-> o.price_shown]
\* the term added to subtotal
Term(o) == [qty |-> o.qty, price |-> o.price, line_total |-> o.line_total]

\* -------------------------------------------- create_summary_dataframe
Row(item) ==
  [Item |-> Get(item, "title", JStr(<<>>)),
   UnitPrice |-> Get(item, "price", JReal(0)),
   Qty |-> Get(item, "quantity", JInt(1))]

\* a tabulator that filters like the formatter: rows only for parsable items
RECURSIVE create_summary_dataframe_filtered(_)
create_summary_dataframe_filtered(items) ==
  IF items = <<>> THEN <<>>
  ELSE LET front == create_summary_dataframe_filtered(SubSeq(items, 1, Len(items) - 1))
           last == items[Len(items)]
       IN IF ItemOutcome(last).exc = "none" THEN Append(front, Row(last)) ELSE front

RECURSIVE create_summary_dataframe(_)
create_summary_dataframe(items) ==
  IF items = <<>> THEN <<>>
  ELSE Append(create_summary_dataframe(SubSeq(items, 1, Len(items) - 1)),
              Row(items[Len(items)]))

\* ------------------------------------------------------------ actions
\* One iteration of "for uploaded_file in uploaded_files" in app.py, for the
\* image img.
ExtractOne(img) ==
  /\ pc = "extract"
  /\ idx < n_files
  /\ LET r == extract_data_from_image(img)
     IN /\ errors' = errors + (IF r.error THEN 1 ELSE 0)
        /\ IF r.exc # "none"
           THEN /\ pc' = "crashed"
                /\ exc' = r.exc
                /\ UNCHANGED <<idx, all_items>>
           ELSE /\ all_items' = all_items \o r.data
                /\ idx' = idx + 1
                /\ UNCHANGED <<pc, exc>>
  /\ UNCHANGED <<n_files, i, subtotal, blocks, line_totals, bill, df_summary>>

ExtractImage == \E img \in Images(MaxBatch - Len(all_items)) : ExtractOne(img)

\* "if not all_items" after the loop.
CheckBatch ==
  /\ pc = "extract"
  /\ idx = n_files
  /\ pc' = IF all_items = <<>> THEN "failed" ELSE "format"
  /\ UNCHANGED <<n_files, idx, all_items, errors, exc, i, subtotal, blocks,
                 line_totals, bill, df_summary>>

\* One iteration of "for item in items" in format_bill_output.
FormatItem ==
  /\ pc = "format"
  /\ i < Len(all_items)
  /\ LET o == ItemOutcome(all_items[i + 1])
     IN IF o.exc = "none"
        THEN /\ subtotal' = subtotal + o.line_total
             /\ line_totals' = Append(line_totals, Term(o))
             /\ blocks' = Append(blocks, Block(o))
             /\ i' = i + 1
             /\ UNCHANGED <<pc, exc>>
        ELSE IF Caught(o.exc)
        THEN /\ i' = i + 1
             /\ UNCHANGED <<pc, exc, subtotal, line_totals, blocks>>
        ELSE /\ pc' = "crashed"
             /\ exc' = o.exc
             /\ UNCHANGED <<i, subtotal, line_totals, blocks>>
  /\ UNCHANGED <<n_files, idx, all_items, errors, bill, df_summary>>

\* The tail of format_bill_output: the total line and the return.
FormatFinish ==
  /\ pc = "format"
  /\ i = Len(all_items)
  /\ bill' = [returned |-> TRUE, blocks |-> blocks,
              rounded_total |-> math_ceil(subtotal), subtotal |-> subtotal]
  /\ pc' = "tabulate"
  /\ UNCHANGED <<n_files, idx, all_items, errors, exc, i, subtotal, blocks,
                 line_totals, df_summary>>

\* df_summary = create_summary_dataframe(all_items), then display and export.
Tabulate ==
  /\ pc = "tabulate"
  /\ df_summary' = [returned |-> TRUE, rows |-> create_summary_dataframe(all_items)]
  /\ pc' = "done"
  /\ UNCHANGED <<n_files, idx, all_items, errors, exc, i, subtotal, blocks,
                 line_totals, bill>>

Next == ExtractImage \/ CheckBatch \/ FormatItem \/ FormatFinish \/ Tabulate

Spec == Init /\ [][Next]_vars

TypeOK ==
  /\ pc \in {"extract", "format", "tabulate", "done", "failed", "crashed"}
  /\ idx \in 0..n_files
  /\ Len(all_items) <= MaxBatch + 1

\* ------------------------------------------------------------ claims
\* quantity coercible to an integer and price coercible to a number
QtyOf(item) == PyInt(Get(item, "quantity", JInt(1)))
PriceOf(item) == PyFloat(Get(item, "price", JReal(0)))
Coercible(item) == QtyOf(item).exc = "none" /\ PriceOf(item).exc = "none"

\* sum of price * quantity over the coercible items of a list
RECURSIVE ExpectedSubtotal(_)
ExpectedSubtotal(items) ==
  IF items = <<>> THEN 0
  ELSE ExpectedSubtotal(Tail(items))
       + (IF Coercible(Head(items))
          THEN PriceOf(Head(items)).v * QtyOf(Head(items)).v ELSE 0)

\* format_bill_output was called and has ended, by return or by an error
FormatEnded ==
  \/ pc \in {"tabulate", "done"}
  \/ pc = "crashed" /\ idx = n_files
\* the handler has ended after aggregating every image
RunEnded == idx = n_files /\ pc \in {"done", "failed", "crashed"}

\* C1: whenever format_bill_output returns, the integer on the Provisional
\* Total line is the ceiling of the returned subtotal: the smallest integer
\* that is >= subtotal.
C1_TotalIsCeiling ==
  bill.returned =>
    /\ bill.rounded_total * Scale >= bill.subtotal
    /\ (bill.rounded_total - 1) * Scale < bill.subtotal

\* a bill whose subtotal 150.0001 is shown as 151
C1_Witness ==
  bill.returned /\ bill.subtotal = 1500001 /\ bill.rounded_total = 151

\* C2: for every item list, format_bill_output returns the sum of
\* price * quantity over exactly the coercible items; a non-coercible item
\* adds nothing and the items around it are still counted.
C2_SubtotalOverCoercible ==
  FormatEnded => bill.returned /\ bill.subtotal = ExpectedSubtotal(all_items)

\* C3: format_bill_output never raises because of a bad quantity or price:
\* the only error that can end a run is the image decoding one.
C3_NeverRaises ==
  pc = "crashed" => exc = "UnidentifiedImageError"

\* the images whose inference call fails or whose reply does not decode
FailingImages ==
  {img \in Images(0) :
     img.open_ok /\ (~img.infer_ok \/ json_loads(CleanFences(img.text)).exc # "none")}

\* C4: when the inference call fails or the fence-stripped reply is not
\* JSON, extract_data_from_image returns an empty list and no error
\* propagates: the batch is unchanged and the loop moves to the next image.
C4_FailSoft ==
  [][\A img \in FailingImages :
       ExtractOne(img) =>
         /\ all_items' = all_items
         /\ idx' = idx + 1
         /\ pc' = "extract"
         /\ exc' = "none"
         /\ errors' = errors + 1]_vars

\* one image failed, the other one contributed its items
C4_Witness ==
  errors = 1 /\ idx = 2 /\ all_items # <<>> /\ pc = "extract"

\* C5: a run produces a bill and a summary table if and only if the
\* aggregated batch is non-empty.
C5_OutputsIffNonEmpty ==
  RunEnded => ((bill.returned /\ df_summary.returned) <=> all_items # <<>>)

\* C6: create_summary_dataframe returns one row per batch item, in batch
\* order, for every batch, bad quantity or price values included; the table
\* the handler gets is that table.
C6_OneRowPerItem ==
  \A rows \in {create_summary_dataframe(all_items)} :
     /\ Len(rows) = Len(all_items)
     /\ \A k \in 1..Len(all_items) :
          /\ rows[k].Item = Get(all_items[k], "title", JStr(<<>>))
          /\ rows[k].UnitPrice = Get(all_items[k], "price", JReal(0))
          /\ rows[k].Qty = Get(all_items[k], "quantity", JInt(1))
     /\ pc = "done" => df_summary.returned /\ df_summary.rows = rows

\* a table of at least two rows, one of them for an item with a bad value
C6_Witness ==
  /\ pc = "done"
  /\ Len(df_summary.rows) = Len(all_items)
  /\ Len(all_items) >= 2
  /\ \E k \in 1..Len(all_items) : ~Coercible(all_items[k])

\* C7: the table row of an item with a non-coercible price carries the
\* default price 0.0, and the row of an item with a non-coercible quantity
\* the default quantity 1.
C7_TableShowsDefaults ==
  df_summary.returned =>
    \A k \in 1..Len(all_items) :
      /\ PriceOf(all_items[k]).exc # "none" => df_summary.rows[k].UnitPrice = JReal(0)
      /\ QtyOf(all_items[k]).exc # "none" => df_summary.rows[k].Qty = JInt(1)

\* C8: no term of the subtotal, no item block and no table row is computed
\* from a quantity below 1 or from a negative price.
C8_PositiveQtyNonNegPrice ==
  /\ \A k \in 1..Len(line_totals) :
       line_totals[k].qty >= 1 /\ line_totals[k].price >= 0
  /\ df_summary.returned =>
       \A k \in 1..Len(df_summary.rows) :
         /\ PyInt(df_summary.rows[k].Qty).exc = "none"
              => PyInt(df_summary.rows[k].Qty).v >= 1
         /\ PyFloat(df_summary.rows[k].UnitPrice).exc = "none"
              => PyFloat(df_summary.rows[k].UnitPrice).v >= 0

\* C9: at every point of the loop of format_bill_output, and in the bill it
\* returns, there is one item block per coercible item consumed, in input
\* order, never more blocks than items, and the k-th block and the k-th
\* term of the subtotal come from the same item.
C9_BlocksAreCoercibleItems ==
  \A good \in {SelectSeq(SubSeq(all_items, 1, i), Coercible)} :
     /\ Len(blocks) = Len(good)
     /\ Len(blocks) <= Len(all_items)
     /\ Len(line_totals) = Len(blocks)
     /\ \A k \in 1..Len(good) :
          /\ blocks[k].title = Get(good[k], "title", JStr(<<"I", "t", "e", "m">>))
          /\ blocks[k].price_shown = Format2f(PriceOf(good[k]).v)
          /\ line_totals[k].price = PriceOf(good[k]).v
          /\ line_totals[k].line_total = PriceOf(good[k]).v * QtyOf(good[k]).v
     /\ bill.returned => bill.blocks = blocks /\ i = Len(all_items)

\* a bill of three items where the middle one was skipped
C9_Witness ==
  /\ bill.returned
  /\ Len(all_items) = 3
  /\ Len(bill.blocks) = 2
  /\ ~Coercible(all_items[2])
  /\ bill.blocks[1].title # bill.blocks[2].title

\* C10: the Qty line of every item block states the integer the unit price
\* was multiplied by for the subtotal.
C10_QtyShownIsQtyUsed ==
  \A k \in 1..Len(blocks) :
    k <= Len(line_totals) => blocks[k].qty_shown = line_totals[k].qty

====
